---- MODULE Spec2Model ----
(***************************************************************************)
(* Model of the Maji Ndogo field-data pipeline:                            *)
(*   src/data_ingestion.py        create_db_engine, query_data,            *)
(*                                read_from_web_CSV                        *)
(*   src/field_data_processor.py  class FieldDataProcessor                 *)
(*                                                                         *)
(* A DataFrame is a record                                                 *)
(*   [isNone, columns, dtypes, rows]                                       *)
(* columns : sequence of column names, dtypes : the dtype of each column   *)
(* ("int64" or "object"), rows : sequence of rows, each a sequence of      *)
(* cells aligned with columns.  A cell is [t, n, s]: a number n (t = "num")*)
(* or a string s (t = "str") held as a sequence of characters, so that     *)
(* str.strip() is computed character by character.                         *)
(***************************************************************************)
EXTENDS Integers, Sequences, FiniteSets, TLC

VARIABLES
    cfg,        \* config_params kept by __init__ (columns_to_rename, values_to_rename)
    df,         \* self.df
    engine,     \* self.engine: 0 is None, otherwise the identity of the engine
    created,    \* number of engines create_db_engine has returned so far
    pc,         \* position of process(): Idle, Ingested, ..., Finalized, Failed
    steps,      \* the steps the current process() invocation has run, with outcome
    last,       \* the last method that ran: [op, ok, err, answer, args]
    before,     \* self.df when the last method started
    last2,      \* the name of the method that ran before the last one
    queried     \* what the data store answered to the query of the running process()

vars == <<cfg, df, engine, created, pc, steps, last, before, last2, queried>>

-----------------------------------------------------------------------------
(* Bounds of the model *)

MaxRows == 2        \* rows of a query result
MaxMapRows == 2     \* rows of a fetched mapping table

-----------------------------------------------------------------------------
(* Cells, strings and data frames *)

Num(n) == [t |-> "num", n |-> n, s |-> <<>>]
Str(s) == [t |-> "str", n |-> 0, s |-> s]

None == [isNone |-> TRUE, columns |-> <<>>, dtypes |-> <<>>, rows |-> <<>>]
Frame(columns, dtypes, rows) ==
    [isNone |-> FALSE, columns |-> columns, dtypes |-> dtypes, rows |-> rows]

Range(f) == {f[i] : i \in DOMAIN f}

HasCol(d, name) == name \in Range(d.columns)
ColIndex(d, name) == CHOOSE i \in 1..Len(d.columns) : d.columns[i] = name
Column(d, name) == [r \in 1..Len(d.rows) |-> d.rows[r][ColIndex(d, name)]]

\* df[name] = cells, a column of the given dtype
SetColumn(d, name, cells, dtype) ==
    LET c == ColIndex(d, name) IN
    [d EXCEPT !.dtypes = [@ EXCEPT ![c] = dtype],
              !.rows = [r \in 1..Len(d.rows) |-> [d.rows[r] EXCEPT ![c] = cells[r]]]]

Ok(d) == [df |-> d, err |-> "none"]
Raise(d, e) == [df |-> d, err |-> e]

-----------------------------------------------------------------------------
(* str.strip(): leading and trailing whitespace removed *)

Whitespace == {" ", "\t", "\n"}

RECURSIVE LStrip(_)
LStrip(s) == IF s # <<>> /\ Head(s) \in Whitespace THEN LStrip(Tail(s)) ELSE s

RECURSIVE RStrip(_)
RStrip(s) ==
    IF s # <<>> /\ s[Len(s)] \in Whitespace THEN RStrip(SubSeq(s, 1, Len(s) - 1)) ELSE s

\* Variant: only the leading whitespace is removed
StripLeft(s) == LStrip(s)

Strip(s) == RStrip(LStrip(s))

-----------------------------------------------------------------------------
(* data_ingestion.py *)

\* What the data store and the web answer: a table, or an error of the driver
Table(d) == [kind |-> "table", data |-> d]
Failure == [kind |-> "error", data |-> None]
NoAnswer == [kind |-> "none", data |-> None]

\* create_db_engine(db_path): the engine, or the exception of the failed connection
create_db_engine(reachable, fresh) ==
    IF reachable THEN [engine |-> fresh, err |-> "none"]
    ELSE [engine |-> 0, err |-> "EngineError"]

\* query_data(engine, sql_query): the rows, ValueError on an empty result,
\* any other exception of the query re-raised
query_data(answer) ==
    IF answer.kind = "error" THEN Raise(None, "QueryError")
    ELSE IF Len(answer.data.rows) = 0 THEN Raise(None, "ValueError")
    ELSE Ok(answer.data)

\* read_from_web_CSV(URL): the parsed table, or the exception re-raised
read_from_web_CSV(answer) ==
    IF answer.kind = "error" THEN Raise(None, "CSVError") ELSE Ok(answer.data)

-----------------------------------------------------------------------------
(* FieldDataProcessor.ingest_sql_data *)

\* Variant: an engine is created on every call
NeedsEngineAlways(e) == TRUE

\* line 98: the engine is created only when there is none yet
NeedsEngine(e) == e = 0

\* The result [engine, created, df, err] of ingest_sql_data on (engine e, n engines
\* created so far, data frame d) when the store is reachable or not and answers
\* the query with `answer`
ingest_sql_data(e, n, d, reachable, answer) ==
    LET made == create_db_engine(reachable, n + 1)
        q    == query_data(answer)
    IN  IF NeedsEngine(e) /\ made.err # "none"
        THEN [engine |-> e, created |-> n, df |-> d, err |-> made.err]
        ELSE [engine  |-> IF NeedsEngine(e) THEN made.engine ELSE e,
              created |-> IF NeedsEngine(e) THEN n + 1 ELSE n,
              df      |-> IF q.err = "none" THEN q.df ELSE d,
              err     |-> q.err]

-----------------------------------------------------------------------------
(* FieldDataProcessor.rename_columns *)

\* The dict literal {k1: v1, k2: v2}: the later entry wins on equal keys
Dict2(k1, v1, k2, v2) == [k \in {k1, k2} |-> IF k = k2 THEN v2 ELSE v1]
Dict1(k1, v1) == [k \in {k1} |-> v1]

\* DataFrame.rename(columns=mapper): names that are keys of the mapper are replaced,
\* keys that name no column are ignored (errors='ignore' is the default)
Rename(d, mapper) ==
    [d EXCEPT !.columns =
        [i \in 1..Len(d.columns) |->
            IF d.columns[i] \in DOMAIN mapper THEN mapper[d.columns[i]] ELSE d.columns[i]]]

\* Variant: the temporary name is used without looking at the columns
TempNameFixed(name, columns) == name

\* lines 125-127: "__temp_name_for_swap__" extended by "_" while it names a column
RECURSIVE TempName(_, _)
TempName(name, columns) ==
    IF name \in Range(columns) THEN TempName(name \o "_", columns) ELSE name

\* Variant: column1 is renamed to column2 and column2 is left as it is
SwapColumnsOneWay(d, column1, column2) == Rename(d, Dict1(column1, column2))

\* lines 131-132: the two renames of the swap
SwapColumns(d, column1, column2) ==
    LET temp_name == TempName("__temp_name_for_swap__", d.columns)
        first     == Rename(d, Dict2(column1, temp_name, column2, column1))
    IN  Rename(first, Dict1(temp_name, column2))

\* columns_to_rename is the ordered list of the dict's items; line 122 takes the
\* first key and the first value
rename_columns(d, columns_to_rename) ==
    IF Len(columns_to_rename) = 0 THEN Raise(d, "IndexError")
    ELSE IF d.isNone THEN Raise(d, "AttributeError")
    ELSE Ok(SwapColumns(d, columns_to_rename[1][1], columns_to_rename[1][2]))

-----------------------------------------------------------------------------
(* FieldDataProcessor.apply_corrections *)

Abs(n) == IF n < 0 THEN -n ELSE n
AbsCell(c) == [c EXCEPT !.n = Abs(@)]

\* Variant: the value is stripped before it is looked up
GetStripped(values_to_rename, crop) ==
    IF crop.t = "str" /\ Strip(crop.s) \in DOMAIN values_to_rename
    THEN Str(values_to_rename[Strip(crop.s)])
    ELSE crop

\* values_to_rename.get(crop, crop)
Get(values_to_rename, crop) ==
    IF crop.t = "str" /\ crop.s \in DOMAIN values_to_rename
    THEN Str(values_to_rename[crop.s])
    ELSE crop

StripCell(c) == [c EXCEPT !.s = Strip(@)]

\* Lines 146-148 one after the other on self.df; a line that raises leaves the
\* assignments of the lines before it in place
apply_corrections(d, values_to_rename, column_name, abs_column) ==
    IF d.isNone THEN Raise(d, "TypeError")
    ELSE IF ~HasCol(d, abs_column) THEN Raise(d, "KeyError")
    ELSE IF \E r \in 1..Len(d.rows) : Column(d, abs_column)[r].t = "str"
         THEN Raise(d, "TypeError")
    ELSE
      LET d1 == SetColumn(d, abs_column,
                          [r \in 1..Len(d.rows) |-> AbsCell(Column(d, abs_column)[r])],
                          d.dtypes[ColIndex(d, abs_column)])
      IN
      IF ~HasCol(d1, column_name) THEN Raise(d1, "KeyError")
      ELSE
        LET dtype == d1.dtypes[ColIndex(d1, column_name)]
            d2 == SetColumn(d1, column_name,
                            [r \in 1..Len(d1.rows) |->
                                Get(values_to_rename, Column(d1, column_name)[r])],
                            dtype)
        IN  IF dtype # "object" THEN Raise(d2, "AttributeError")
            ELSE Ok(SetColumn(d2, column_name,
                              [r \in 1..Len(d2.rows) |-> StripCell(Column(d2, column_name)[r])],
                              dtype))

-----------------------------------------------------------------------------
(* FieldDataProcessor.weather_station_mapping *)

\* The columns both frames have, in the order of the left frame
CommonColumns(l, r) == SelectSeq(l.columns, LAMBDA c : c \in Range(r.columns))

\* Variant: rows are joined when they agree on some shared column
KeysMatchAny(l, r, i, j) ==
    \E c \in Range(CommonColumns(l, r)) :
        l.rows[i][ColIndex(l, c)] = r.rows[j][ColIndex(r, c)]

KeysMatch(l, r, i, j) ==
    \A c \in Range(CommonColumns(l, r)) :
        l.rows[i][ColIndex(l, c)] = r.rows[j][ColIndex(r, c)]

\* Positions of the columns of r that l does not have
ExtraColumns(l, r) ==
    SelectSeq([j \in 1..Len(r.columns) |-> j], LAMBDA j : r.columns[j] \notin Range(l.columns))

ExtraCells(l, r, j) ==
    [k \in 1..Len(ExtraColumns(l, r)) |-> r.rows[j][ExtraColumns(l, r)[k]]]

\* The joined rows of left row i with the right rows j, j+1, ...
RECURSIVE MatchesOf(_, _, _, _)
MatchesOf(l, r, i, j) ==
    IF j > Len(r.rows) THEN <<>>
    ELSE (IF KeysMatch(l, r, i, j) THEN <<l.rows[i] \o ExtraCells(l, r, j)>> ELSE <<>>)
         \o MatchesOf(l, r, i, j + 1)

\* The joined rows of the left rows i, i+1, ...: the order of the left keys is kept
RECURSIVE MergeRows(_, _, _)
MergeRows(l, r, i) ==
    IF i > Len(l.rows) THEN <<>> ELSE MatchesOf(l, r, i, 1) \o MergeRows(l, r, i + 1)

\* DataFrame.merge(right): how='inner', on the columns the two frames share
Merge(l, r) ==
    LET common == CommonColumns(l, r)
        extra  == ExtraColumns(l, r)
    IN  IF common = <<>> THEN Raise(l, "MergeError")
        ELSE IF /\ Len(l.rows) > 0
                /\ Len(r.rows) > 0
                /\ \E c \in Range(common) :
                       l.dtypes[ColIndex(l, c)] # r.dtypes[ColIndex(r, c)]
             THEN Raise(l, "ValueError")
        ELSE Ok(Frame(l.columns \o [k \in 1..Len(extra) |-> r.columns[extra[k]]],
                      l.dtypes \o [k \in 1..Len(extra) |-> r.dtypes[extra[k]]],
                      MergeRows(l, r, 1)))

\* line 158: self.df.merge is looked up before the CSV is read
weather_station_mapping(d, answer) ==
    LET csv == read_from_web_CSV(answer) IN
    IF d.isNone THEN Raise(d, "AttributeError")
    ELSE IF csv.err # "none" THEN Raise(d, csv.err)
    ELSE Merge(d, csv.df)

-----------------------------------------------------------------------------
(* FieldDataProcessor.process, line 171 *)

DropColumn(d, name) ==
    LET keep == SelectSeq([i \in 1..Len(d.columns) |-> i], LAMBDA i : d.columns[i] # name) IN
    IF ~HasCol(d, name) THEN Raise(d, "KeyError")
    ELSE Ok(Frame([k \in 1..Len(keep) |-> d.columns[keep[k]]],
                  [k \in 1..Len(keep) |-> d.dtypes[keep[k]]],
                  [r \in 1..Len(d.rows) |-> [k \in 1..Len(keep) |-> d.rows[r][keep[k]]]]))

drop_artifact(d) == DropColumn(d, "Unnamed: 0")

-----------------------------------------------------------------------------
(* The inputs: configurations, query results and mapping tables *)

Cassaval == <<"c", "a", "s", "s", "a", "v", "a", "l">>
Cassava == <<"c", "a", "s", "s", "a", "v", "a">>
PaddedCassaval == <<" ">> \o Cassaval \o <<" ">>
Teaa == <<"t", "e", "a", "a">>
PaddedTea == <<" ", "t", "e", "a", "\t">>
PaddedWheat == <<"w", "h", "e", "a", "t", " ">>

\* values_to_rename
SpecTable == (Cassaval :> Cassava)
PaddedTable == (PaddedCassaval :> Cassava) @@ (Teaa :> PaddedTea)

\* columns_to_rename as the ordered items of the dict
FieldPlot == << <<"Field_ID", "Plot_ID">> >>
CropElevation == << <<"Crop_type", "Elevation">>, <<"Elevation", "Crop_type">> >>

Configs ==
    [columns_to_rename : {FieldPlot, CropElevation}, values_to_rename : {SpecTable, PaddedTable}]

Prefix(rows, k) == SubSeq(rows, 1, IF k < Len(rows) THEN k ELSE Len(rows))

\* The survey table: the first rows of it, as many as the query selects
SurveyColumns == <<"Field_ID", "Plot_ID", "Elevation", "Crop_type">>
SurveyDtypes == <<"int64", "int64", "int64", "object">>
SurveyRows ==
    << <<Num(1), Num(1), Num(-430), Str(PaddedCassaval)>>,
       <<Num(2), Num(3), Num(430), Str(Cassaval)>>,
       <<Num(3), Num(2), Num(-5), Str(Teaa)>>,
       <<Num(1), Num(2), Num(0), Str(PaddedWheat)>> >>
Survey(k) == Frame(SurveyColumns, SurveyDtypes, Prefix(SurveyRows, k))

\* Query results that lack a column of the survey table, or hold the temporary name
NoPlot == Frame(<<"Field_ID", "Elevation", "Crop_type">>, <<"int64", "int64", "object">>,
                << <<Num(1), Num(-430), Str(Teaa)>> >>)
NoCrop == Frame(<<"Field_ID", "Plot_ID", "Elevation">>, <<"int64", "int64", "int64">>,
                << <<Num(1), Num(2), Num(-430)>> >>)
TempTaken == Frame(<<"__temp_name_for_swap__", "Plot_ID", "Field_ID">>,
                   <<"int64", "int64", "int64">>, << <<Num(7), Num(2), Num(1)>> >>)

QueryAnswers ==
    {Table(Survey(k)) : k \in 0..MaxRows} \cup {Table(NoPlot), Table(NoCrop), Table(TempTaken), Failure}

\* The mapping CSV: the first rows of it, each field mapped once
MappingColumns == <<"Unnamed: 0", "Field_ID", "Weather_station">>
MappingDtypes == <<"int64", "int64", "int64">>
MappingRows ==
    << <<Num(0), Num(1), Num(10)>>,
       <<Num(1), Num(3), Num(20)>>,
       <<Num(2), Num(2), Num(10)>>,
       <<Num(3), Num(4), Num(30)>> >>
Mapping(k) == Frame(MappingColumns, MappingDtypes, Prefix(MappingRows, k))

\* A mapping that maps field 1 twice, a mapping of other fields, one without the
\* index column, one that shares no column with the survey
Repeated == Frame(MappingColumns, MappingDtypes,
                  << <<Num(0), Num(1), Num(10)>>, <<Num(1), Num(1), Num(20)>> >>)
OtherFields == Frame(MappingColumns, MappingDtypes, << <<Num(0), Num(9), Num(10)>> >>)
NoIndex == Frame(<<"Field_ID", "Weather_station">>, <<"int64", "int64">>,
                 << <<Num(1), Num(10)>> >>)
NoShared == Frame(<<"Station">>, <<"int64">>, << <<Num(10)>> >>)

CsvAnswers ==
    {Table(Mapping(k)) : k \in 1..MaxMapRows}
        \cup {Table(Repeated), Table(OtherFields), Table(NoIndex), Table(NoShared), Failure}

\* apply_corrections(column_name, abs_column): the defaults and one override
CorrectionArgs == {<<"Crop_type", "Elevation">>, <<"Elevation", "Field_ID">>}

-----------------------------------------------------------------------------
(* FieldDataProcessor.process: the order of the steps *)

\* Variant: process() goes on after a step that raised
PcAfterSwallow(op, ok) ==
    CASE op = "ingest"  -> "Ingested"
      [] op = "rename"  -> "Renamed"
      [] op = "correct" -> "Corrected"
      [] op = "map"     -> "Mapped"
      [] op = "drop"    -> "Finalized"

\* The position process() is at after step op ended with or without an exception
PcAfter(op, ok) ==
    IF ~ok THEN "Failed"
    ELSE CASE op = "ingest"  -> "Ingested"
           [] op = "rename"  -> "Renamed"
           [] op = "correct" -> "Corrected"
           [] op = "map"     -> "Mapped"
           [] op = "drop"    -> "Finalized"

-----------------------------------------------------------------------------------------------------------------------------------------------------
(* The state machine *)

\* A method that ran: its name, its exception ("none" when it returned), what the
\* store or the web answered to it, and the arguments it was called with
Event(op, err, answer, args) ==
    [op |-> op, ok |-> err = "none", err |-> err, answer |-> answer, args |-> args]

Init ==
    /\ cfg \in Configs
    /\ df = None
    /\ engine = 0
    /\ created = 0
    /\ pc = "Idle"
    /\ steps = <<>>
    /\ last = Event("init", "none", NoAnswer, <<>>)
    /\ last2 = "init"
    /\ before = None
    /\ queried = NoAnswer

\* What every method call records
Ran(e) ==
    /\ last' = e
    /\ last2' = last.op
    /\ before' = df

\* A call of the caller, outside process()
Called(e) ==
    /\ pc = "Idle"
    /\ Ran(e)
    /\ UNCHANGED <<cfg, pc, steps, queried>>

\* A step of process(): the next position, the step recorded
Stepped(at, e) ==
    /\ pc = at
    /\ Ran(e)
    /\ pc' = PcAfter(e.op, e.ok)
    /\ steps' = Append(steps, [op |-> e.op, ok |-> e.ok])
    /\ UNCHANGED cfg

\* The answer of the store that ingest_sql_data got: none when no engine was there
Asked(reachable, answer) == IF NeedsEngine(engine) /\ ~reachable THEN NoAnswer ELSE answer

\* The answer of the web that weather_station_mapping got: none without a data frame
Read(answer) == IF df.isNone THEN NoAnswer ELSE answer

Ingest ==
    \E reachable \in BOOLEAN, answer \in QueryAnswers :
        LET r == ingest_sql_data(engine, created, df, reachable, answer) IN
        /\ engine' = r.engine
        /\ created' = r.created
        /\ df' = r.df
        /\ Called(Event("ingest", r.err, Asked(reachable, answer), <<>>))

RenameColumns ==
    LET r == rename_columns(df, cfg.columns_to_rename) IN
    /\ df' = r.df
    /\ Called(Event("rename", r.err, NoAnswer, <<>>))
    /\ UNCHANGED <<engine, created>>

ApplyCorrections ==
    \E args \in CorrectionArgs :
        LET r == apply_corrections(df, cfg.values_to_rename, args[1], args[2]) IN
        /\ df' = r.df
        /\ Called(Event("correct", r.err, NoAnswer, args))
        /\ UNCHANGED <<engine, created>>

WeatherStationMapping ==
    \E answer \in CsvAnswers :
        LET r == weather_station_mapping(df, answer) IN
        /\ df' = r.df
        /\ Called(Event("map", r.err, Read(answer), <<>>))
        /\ UNCHANGED <<engine, created>>

\* process(), line 167
ProcessIngest ==
    \E reachable \in BOOLEAN, answer \in QueryAnswers :
        LET r == ingest_sql_data(engine, created, df, reachable, answer) IN
        /\ engine' = r.engine
        /\ created' = r.created
        /\ df' = r.df
        /\ queried' = Asked(reachable, answer)
        /\ Stepped("Idle", Event("ingest", r.err, Asked(reachable, answer), <<>>))

\* process(), line 168
ProcessRename ==
    LET r == rename_columns(df, cfg.columns_to_rename) IN
    /\ df' = r.df
    /\ Stepped("Ingested", Event("rename", r.err, NoAnswer, <<>>))
    /\ UNCHANGED <<engine, created, queried>>

\* process(), line 169: the default arguments
ProcessCorrect ==
    LET r == apply_corrections(df, cfg.values_to_rename, "Crop_type", "Elevation") IN
    /\ df' = r.df
    /\ Stepped("Renamed", Event("correct", r.err, NoAnswer, <<"Crop_type", "Elevation">>))
    /\ UNCHANGED <<engine, created, queried>>

\* process(), line 170
ProcessMap ==
    \E answer \in CsvAnswers :
        LET r == weather_station_mapping(df, answer) IN
        /\ df' = r.df
        /\ Stepped("Corrected", Event("map", r.err, Read(answer), <<>>))
        /\ UNCHANGED <<engine, created, queried>>

\* process(), line 171
ProcessDrop ==
    LET r == drop_artifact(df) IN
    /\ df' = r.df
    /\ Stepped("Mapped", Event("drop", r.err, NoAnswer, <<>>))
    /\ UNCHANGED <<engine, created, queried>>

\* process() returns, or its exception reaches the caller
ProcessReturn ==
    /\ pc \in {"Finalized", "Failed"}
    /\ pc' = "Idle"
    /\ steps' = <<>>
    /\ queried' = NoAnswer
    /\ UNCHANGED <<cfg, df, engine, created, last, before, last2>>

Next ==
    \/ Ingest
    \/ RenameColumns
    \/ ApplyCorrections
    \/ WeatherStationMapping
    \/ ProcessIngest
    \/ ProcessRename
    \/ ProcessCorrect
    \/ ProcessMap
    \/ ProcessDrop
    \/ ProcessReturn

Spec == Init /\ [][Next]_vars

-----------------------------------------------------------------------------
(* Properties *)

Cell(d, r, name) == d.rows[r][ColIndex(d, name)]
RowsOf(d) == 1..Len(d.rows)

\* The rename pair (A, B) of the configuration
PairA == cfg.columns_to_rename[1][1]
PairB == cfg.columns_to_rename[1][2]
HasBoth(d) == ~d.isNone /\ HasCol(d, PairA) /\ HasCol(d, PairB)
Swapped(name) == IF name = PairA THEN PairB ELSE IF name = PairB THEN PairA ELSE name

\* out is s without its leading and trailing whitespace
StrippedOf(s, out) ==
    \E a, b \in 0..Len(s) :
        /\ a + b <= Len(s)
        /\ \A i \in 1..a : s[i] \in Whitespace
        /\ \A i \in (Len(s) - b + 1)..Len(s) : s[i] \in Whitespace
        /\ out = SubSeq(s, a + 1, Len(s) - b)
        /\ out = <<>> \/ (out[1] \notin Whitespace /\ out[Len(out)] \notin Whitespace)

\* No two rows of the mapping table r agree on all the columns r shares with l
UniqueKeys(l, r) ==
    \A i, j \in RowsOf(r) :
        i # j => \E c \in Range(CommonColumns(l, r)) : Cell(r, i, c) # Cell(r, j, c)

\* process() has completed on a query result that holds the row
\* {Field_ID: 1, Elevation: -430, Crop_type: " cassaval "} under the table
\* {"cassaval": "cassava"}
ScenarioRun ==
    /\ pc = "Finalized"
    /\ cfg.values_to_rename = SpecTable
    /\ queried.kind = "table"
    /\ queried.data.columns = SurveyColumns
    /\ Len(queried.data.rows) >= 1
    /\ queried.data.rows[1] = SurveyRows[1]

\* The rows of the result that come from that row
ScenarioRows ==
    {r \in RowsOf(df) : Cell(df, r, "Field_ID") = Num(1) /\ Cell(df, r, "Plot_ID") = Num(1)}

\* C1 as stated: after process() the scenario row has Elevation 430 and
\* Crop_type "cassava"
C1_Original ==
    ScenarioRun =>
        \A r \in ScenarioRows :
            Cell(df, r, "Elevation") = Num(430) /\ Cell(df, r, "Crop_type") = Str(Cassava)

\* C1 amended: after process() the scenario row has Elevation 430 and Crop_type
\* "cassaval": the padded value is no key of the table, so it is only stripped
C1_Amended ==
    ScenarioRun =>
        \A r \in ScenarioRows :
            Cell(df, r, "Elevation") = Num(430) /\ Cell(df, r, "Crop_type") = Str(Cassaval)

C1_Witness == ScenarioRun /\ ScenarioRows # {}

\* C2: after an ingest attempt the working dataset is unset or holds at least one
\* row; a query that returns zero rows makes ingest raise, and process() stops
C2_Claim ==
    last.op = "ingest" =>
        /\ df.isNone \/ Len(df.rows) >= 1
        /\ (last.answer.kind = "table" /\ Len(last.answer.data.rows) = 0) =>
               (~last.ok /\ pc \in {"Failed", "Idle"})

\* C3: rename_columns fails and leaves the column names alone when column A or
\* column B is absent from the working dataset
C3_Claim ==
    (last.op = "rename" /\ ~HasBoth(before)) => (~last.ok /\ df = before)

\* C4 as stated: the join never increases the number of rows
C4_Original ==
    (last.op = "map" /\ last.ok) => Len(df.rows) <= Len(before.rows)

\* C4 amended: the join does not increase the number of rows when no two rows of
\* the mapping table agree on all the columns shared with the working dataset
C4_Amended ==
    (last.op = "map" /\ last.ok /\ UniqueKeys(before, last.answer.data)) =>
        Len(df.rows) <= Len(before.rows)

C4_Witness ==
    /\ last.op = "map"
    /\ last.ok
    /\ UniqueKeys(before, last.answer.data)
    /\ Len(last.answer.data.rows) >= 2
    /\ Len(df.rows) >= 2

\* C5: weather_station_mapping never completes leaving an empty working dataset,
\* and process() never finishes with an empty result
C5_Claim ==
    /\ (last.op = "map" /\ last.ok) => Len(df.rows) >= 1
    /\ pc = "Finalized" => Len(df.rows) >= 1

RenameStep == RenameColumns \/ ProcessRename

\* C6: a second rename_columns with the same pair, on a dataset that held both
\* columns before the first, gives back the dataset as it was before the first
C6_RenameTwice ==
    [][(last.op = "rename" /\ last.ok /\ HasBoth(before) /\ RenameStep)
           => (last'.ok /\ df' = before)]_vars

C6_Witness ==
    /\ last.op = "rename"
    /\ last2 = "rename"
    /\ last.ok
    /\ HasBoth(df)
    /\ PairA # PairB
    /\ df # before
    /\ Len(df.rows) >= 1

\* C7: on a dataset that holds both columns, rename_columns exchanges the names A
\* and B, keeps every other name, every value and the order of the columns, and
\* leaves no temporary name; [Field_ID, Plot_ID, Elevation] becomes
\* [Plot_ID, Field_ID, Elevation] under the pair (Field_ID, Plot_ID)
C7_TrueSwap ==
    (last.op = "rename" /\ HasBoth(before)) =>
        /\ last.ok
        /\ Len(df.columns) = Len(before.columns)
        /\ \A i \in 1..Len(before.columns) : df.columns[i] = Swapped(before.columns[i])
        /\ df.rows = before.rows
        /\ df.dtypes = before.dtypes
        /\ Range(df.columns) = Range(before.columns)
        /\ (before.columns = <<"Field_ID", "Plot_ID", "Elevation">>
                /\ PairA = "Field_ID" /\ PairB = "Plot_ID")
             => df.columns = <<"Plot_ID", "Field_ID", "Elevation">>

C7_Witness ==
    /\ last.op = "rename"
    /\ last.ok
    /\ before.columns = <<"Field_ID", "Plot_ID", "Elevation">>
    /\ df.columns = <<"Plot_ID", "Field_ID", "Elevation">>
    /\ Len(df.rows) >= 1

\* C8: after apply_corrections every value of the value column is the canonical
\* value of the raw value, stripped, when the raw value is a key of the table, and
\* the raw value, stripped, when it is not
C8_Corrections ==
    (last.op = "correct" /\ last.ok) =>
        /\ Len(df.rows) = Len(before.rows)
        /\ \A r \in RowsOf(before) :
               LET raw == Cell(before, r, last.args[1])
                   new == Cell(df, r, last.args[1])
               IN  /\ new.t = "str"
                   /\ IF raw.s \in DOMAIN cfg.values_to_rename
                      THEN StrippedOf(cfg.values_to_rename[raw.s], new.s)
                      ELSE StrippedOf(raw.s, new.s)

C8_Witness ==
    /\ last.op = "correct"
    /\ last.ok
    /\ \E r \in RowsOf(before) :
           LET raw == Cell(before, r, last.args[1]) IN
           /\ raw.s \in DOMAIN cfg.values_to_rename
           /\ Cell(df, r, last.args[1]).s # raw.s
    /\ \E r \in RowsOf(before) :
           LET raw == Cell(before, r, last.args[1]) IN
           /\ raw.s \notin DOMAIN cfg.values_to_rename
           /\ Cell(df, r, last.args[1]).s # raw.s

Order == <<"ingest", "rename", "correct", "map", "drop">>

\* C9: process() runs ingest, rename, correct, map, drop in this order, each at
\* most once; a step that raises is the last one and its error reaches the caller;
\* process() completes only after the five steps succeeded
C9_Sequential ==
    /\ Len(steps) <= Len(Order)
    /\ \A i \in 1..Len(steps) :
           steps[i].op = Order[i] /\ (i < Len(steps) => steps[i].ok)
    /\ pc = "Finalized" => (Len(steps) = Len(Order) /\ \A i \in 1..Len(steps) : steps[i].ok)
    /\ pc = "Failed" => (steps # <<>> /\ ~steps[Len(steps)].ok /\ ~last.ok)
    /\ (steps # <<>> /\ ~steps[Len(steps)].ok) => pc = "Failed"

C9_Witness == pc = "Finalized" /\ Len(df.rows) >= 1

\* C10: no engine exists before the first ingest; an engine is created only by an
\* ingest that finds none, and once one exists every later call keeps it
C10_LazyEngine ==
    /\ engine = 0 /\ created = 0
    /\ [][/\ engine # 0 => (engine' = engine /\ created' = created)
          /\ engine' # engine => (last'.op = "ingest" /\ created' = created + 1)
          /\ created' # created => engine' = created']_vars

C10_Witness ==
    /\ last.op = "ingest"
    /\ last2 = "ingest"
    /\ ~before.isNone
    /\ engine = 1
    /\ created = 1

=============================================================================
